---- MODULE Spec2Model ----
(***************************************************************************)
(* totool: a wrapper over "otool -L" that walks the dependency graph of a  *)
(* mach-o binary breadth first and prints it as text or as a dot graph.    *)
(*                                                                         *)
(* A string that holds a path is modelled as the sequence of its segments, *)
(* the pieces between its "/" separators: "/b/app" is <<"", "b", "app">>,  *)
(* "/" is <<"", "">>, "" is <<"">>, "app" is <<"app">>.  Every string is   *)
(* exactly one non-empty sequence of separator-free segments.              *)
(***************************************************************************)
EXTENDS Integers, Sequences, FiniteSets, TLC

VARIABLES
    args,       \* flag.Args(): the root arguments of the command line
    verbose,    \* the -v flag
    dot,        \* the -dot flag
    pc,         \* where the process is: "main", "walk", "exited", "panic", "resolve", "resolved"
    argIdx,     \* index in args of the root main's loop is at
    root,       \* walk's root, after filepath.Abs
    toVisit,    \* walk's queue of dependency records
    visited,    \* walk's visited set (the keys of the map)
    otool,      \* what "otool -L" answers for the binaries probed so far
    linesLeft,  \* how many dependency lines otool may still print in this run
    infos,      \* the info strings otool prints in this run
    errs,       \* history: what each call of walk returned to main ("" is nil)
    events,     \* history: the calls made on the printer interface
    probes,     \* history: the calls of appendDirectDeps
    stdout,     \* the lines written to standard output
    stderr,     \* the lines written to standard error
    exitCode,   \* the exit code of the process, -1 while it runs
    call,       \* the arguments of a resolveDepPath call under test
    ret         \* its result

vars == <<args, verbose, dot, pc, argIdx, root, toVisit, visited, otool,
          linesLeft, infos, errs, events, probes, stdout, stderr, exitCode, call, ret>>

\* what no step of a run changes
fixed == <<args, verbose, dot, infos, call, ret>>

----------------------------------------------------------------------------
(* Bounds *)

\* the most root arguments on a command line
MaxArgs == 2
\* the most dependency lines in one answer of otool
MaxDeps == 2
\* the most dependency lines in all the answers of otool, in a run with one
\* root argument
MaxLines == 4
\* the same in a run with any number of root arguments
MaxMainLines == 2
\* the same in a run of the text printer with one root argument, where otool
\* prints several info strings
MaxTextLines == 3
\* the most segments after the marker in a path given to resolveDepPath
MaxRel == 3

----------------------------------------------------------------------------
(* Paths *)

App == <<"", "b", "app">>
LibX == <<"", "b", "x">>
LibY == <<"", "l", "y">>
LibZ == <<"", "l", "z">>
RelApp == <<"app">>
MarkerY == <<"@executable_path", "..", "l", "y">>
Cwd == <<"", "b">>
NoPath == <<>>

Front(s) == SubSeq(s, 1, Len(s) - 1)
Last(s) == s[Len(s)]

\* a + b on strings held as segments: the last segment of a and the first
\* of b become one segment
JoinSeg(x, y) == IF x = "" THEN y ELSE IF y = "" THEN x ELSE x \o y
StrCat(a, b) == Front(a) \o <<JoinSeg(Last(a), b[1])>> \o Tail(b)

IsAbs(p) == Len(p) >= 2 /\ p[1] = ""

RECURSIVE CleanFrom(_, _, _, _)
CleanFrom(p, i, out, rooted) ==
    IF i > Len(p) THEN out
    ELSE LET seg == p[i] IN
         IF seg = "" \/ seg = "."
           THEN CleanFrom(p, i + 1, out, rooted)
         ELSE IF seg = ".."
           THEN IF out # <<>> /\ Last(out) # ".."
                  THEN CleanFrom(p, i + 1, Front(out), rooted)
                ELSE IF rooted
                  THEN CleanFrom(p, i + 1, out, rooted)
                ELSE CleanFrom(p, i + 1, Append(out, ".."), rooted)
         ELSE CleanFrom(p, i + 1, Append(out, seg), rooted)

\* filepath.Clean
Clean(p) ==
    LET rooted == IsAbs(p)
        out == CleanFrom(p, 1, <<>>, rooted)
    IN  IF rooted
          THEN IF out = <<>> THEN <<"", "">> ELSE <<"">> \o out
          ELSE IF out = <<>> THEN <<".">> ELSE out

\* filepath.Dir: Clean of the path up to and including its last separator
Dir(p) == IF Len(p) = 1 THEN Clean(<<"">>) ELSE Clean(Front(p) \o <<"">>)

relPrefix == <<"@executable_path", "">>

\* strings.HasPrefix(path, pre), for a pre that ends with a separator
HasPrefix(path, pre) ==
    /\ Len(path) >= Len(pre)
    /\ \A i \in 1..(Len(pre) - 1) : path[i] = pre[i]

\* strings.Replace(path, pre, new, 1) for a path that begins with pre
ReplaceFirst(path, pre, new) ==
    StrCat(new, SubSeq(path, Len(pre), Len(path)))

\* mutant: the path is not cleaned
resolveDepPathNoClean(bin, path) ==
    IF HasPrefix(path, relPrefix)
      THEN ReplaceFirst(path, relPrefix, StrCat(Dir(bin), <<"", "">>))
      ELSE path

resolveDepPath(bin, path) ==
    IF HasPrefix(path, relPrefix)
      THEN LET bindir == StrCat(Dir(bin), <<"", "">>)
           IN  Clean(ReplaceFirst(path, relPrefix, bindir))
      ELSE path

----------------------------------------------------------------------------
(* The answers of "otool -L" *)

Infos == {"(v1)", "(v2)"}

\* the paths otool reports as dependencies
DepPaths == {LibX, LibY, LibZ, MarkerY}

\* One line of otool's output.  kind "hdr" is the first line (the binary
\* itself), "dep" a line depRe matches, with the text of its two groups,
\* "nomatch" a line depRe does not match, "toolong" a line bufio.Scanner
\* gives up on.
HdrLine(bin) == [kind |-> "hdr", path |-> bin, info |-> ""]
DepLine(p, i) == [kind |-> "dep", path |-> p, info |-> i]
NoMatchLine == [kind |-> "nomatch", path |-> NoPath, info |-> ""]
TooLongLine == [kind |-> "toolong", path |-> NoPath, info |-> ""]

DepLines == {DepLine(p, i) : p \in DepPaths, i \in infos}

\* the dependency lines of an answer of at most m lines; nothing is read
\* after a line of kind "nomatch" or "toolong", so such a line comes last
LineSeqs(m) ==
    LET good(k) == [1..k -> DepLines]
    IN  UNION {good(k) : k \in 0..m}
          \cup UNION {{g \o <<b>> : g \in good(k), b \in {NoMatchLine, TooLongLine}}
                        : k \in 0..(m - 1)}

Min(a, b) == IF a < b THEN a ELSE b

\* What cmd.Output() can give for otool on bin: the command could not be run
\* (an error that is no *exec.ExitError), it ran and exited with a non-zero
\* code, or it ran and printed its lines.
OtoolAnswers(bin, m) ==
    {[ran |-> FALSE, exit |-> 0, out |-> <<>>], [ran |-> TRUE, exit |-> 1, out |-> <<>>]}
      \cup {[ran |-> TRUE, exit |-> 0, out |-> <<HdrLine(bin)>> \o ls]
              : ls \in LineSeqs(Min(m, MaxDeps))}

\* the dependency lines of an answer
LinesOf(res) == IF res.out = <<>> THEN 0 ELSE Len(res.out) - 1

\* exec.Command("otool", "-L", bin).Output(): the same answer each time a
\* binary is probed in one run
Output(bin) ==
    IF bin \in DOMAIN otool THEN {otool[bin]}
    ELSE OtoolAnswers(bin, linesLeft)

Probed(bin, res) == IF bin \in DOMAIN otool THEN otool ELSE otool @@ (bin :> res)
Left(bin, res) == IF bin \in DOMAIN otool THEN linesLeft ELSE linesLeft - LinesOf(res)

----------------------------------------------------------------------------
(* The prober *)

dependency(bin, info) == [bin |-> bin, info |-> info]

\* mutant: every entry is appended, the probed binary's own too
RECURSIVE ScanLinesUnfiltered(_, _, _, _)
ScanLinesUnfiltered(deps, bin, lines, i) ==
    IF i > Len(lines) THEN [deps |-> deps, err |-> "", panic |-> ""]
    ELSE IF lines[i].kind = "toolong"
      THEN [deps |-> deps, err |-> "bufio.Scanner: token too long", panic |-> ""]
    ELSE IF lines[i].kind # "dep"
      THEN [deps |-> deps, err |-> "", panic |-> "unexpected otool output: %q, matched %v"]
    ELSE ScanLinesUnfiltered(
             Append(deps, dependency(resolveDepPath(bin, lines[i].path), lines[i].info)),
             bin, lines, i + 1)

\* mutant: the entry is compared with bin as otool printed it, before it is
\* resolved
RECURSIVE ScanLinesRawFilter(_, _, _, _)
ScanLinesRawFilter(deps, bin, lines, i) ==
    IF i > Len(lines) THEN [deps |-> deps, err |-> "", panic |-> ""]
    ELSE IF lines[i].kind = "toolong"
      THEN [deps |-> deps, err |-> "bufio.Scanner: token too long", panic |-> ""]
    ELSE IF lines[i].kind # "dep"
      THEN [deps |-> deps, err |-> "", panic |-> "unexpected otool output: %q, matched %v"]
    ELSE LET depbin == resolveDepPath(bin, lines[i].path)
         IN  IF lines[i].path # bin
               THEN ScanLinesRawFilter(Append(deps, dependency(depbin, lines[i].info)),
                                       bin, lines, i + 1)
               ELSE ScanLinesRawFilter(deps, bin, lines, i + 1)

\* the scanning loop of appendDirectDeps over the lines after the first
RECURSIVE ScanLines(_, _, _, _)
ScanLines(deps, bin, lines, i) ==
    IF i > Len(lines) THEN [deps |-> deps, err |-> "", panic |-> ""]
    ELSE IF lines[i].kind = "toolong"
      THEN [deps |-> deps, err |-> "bufio.Scanner: token too long", panic |-> ""]
    ELSE IF lines[i].kind # "dep"
      THEN [deps |-> deps, err |-> "", panic |-> "unexpected otool output: %q, matched %v"]
    ELSE LET depbin == resolveDepPath(bin, lines[i].path)
         IN  IF depbin # bin
               THEN ScanLines(Append(deps, dependency(depbin, lines[i].info)), bin, lines, i + 1)
               ELSE ScanLines(deps, bin, lines, i + 1)

\* The result of appendDirectDeps(deps, bin) when otool answers res: the
\* slice and the error it returns, or the panic it ends with (panic # "").
appendDirectDeps(deps, bin, res) ==
    IF ~res.ran
      THEN [deps |-> deps, err |-> "", panic |-> "interface conversion: error is not *exec.ExitError"]
    ELSE IF res.exit # 0
      THEN [deps |-> deps, err |-> "otool error when processing %s", panic |-> ""]
      ELSE ScanLines(deps, bin, IF res.out = <<>> THEN <<>> ELSE Tail(res.out), 1)

----------------------------------------------------------------------------
(* The printers *)

OutLine(fmt, a, b, s) == [fmt |-> fmt, a |-> a, b |-> b, s |-> s]

textPrintPrologue == <<>>
textPrintEpilogue == <<>>
textPrintRootBin(bin) == <<OutLine("%s:\n", bin, NoPath, "")>>
textPrintDepBin(v, d) ==
    IF v THEN <<OutLine("\t%s %s\n", d.bin, NoPath, d.info)>>
         ELSE <<OutLine("\t%s\n", d.bin, NoPath, "")>>
\* mutant: the text printer prints the edges too
textPrintDepEdge(from, to) == <<OutLine("\t%s -> %s\n", from, to, "")>>
textPrintDep(from, to) == <<>>

dotPrintPrologue == <<OutLine("digraph G {\n", NoPath, NoPath, "")>>
dotPrintEpilogue == <<OutLine("}\n", NoPath, NoPath, "")>>
dotPrintRootBin(bin) == <<>>
dotPrintDepBin(d) == <<>>
dotPrintDep(from, to) == <<OutLine("\t\"%s\" -> \"%s\";\n", from, to, "")>>

\* pt is dotPrinter{} with -dot and textPrinter{verbose} without
printPrologue == IF dot THEN dotPrintPrologue ELSE textPrintPrologue
printEpilogue == IF dot THEN dotPrintEpilogue ELSE textPrintEpilogue
printRootBin(bin) == IF dot THEN dotPrintRootBin(bin) ELSE textPrintRootBin(bin)
printDepBin(d) == IF dot THEN dotPrintDepBin(d) ELSE textPrintDepBin(verbose, d)
printDep(from, to) == IF dot THEN dotPrintDep(from, to) ELSE textPrintDep(from, to)

\* a call of appendDirectDeps(toVisit, bin), made by the walk of argument
\* number w
Probe(w, bin) == [walk |-> w, bin |-> bin]

\* a call on the printer interface, made by the walk of argument number w
Event(w, ev, bin, info, to) == [walk |-> w, ev |-> ev, bin |-> bin, info |-> info, to |-> to]

----------------------------------------------------------------------------
(* main and walk *)

NoCall == [bin |-> NoPath, path |-> NoPath]

ArgPaths == {RelApp, LibY}

ArgLists == UNION {[1..n -> ArgPaths] : n \in 0..MaxArgs}

\* the start of a run on one of the command lines argLists, where otool
\* prints at most lines dependency lines, with info strings of infoSet
InitRun(argLists, lines, infoSet, dots) ==
    /\ args \in argLists
    /\ linesLeft = lines
    /\ infos = infoSet
    /\ verbose \in BOOLEAN
    /\ dot \in dots
    /\ pc = "main"
    /\ argIdx = 1
    /\ root = NoPath
    /\ toVisit = <<>>
    /\ visited = {}
    /\ otool = <<>>
    /\ errs = <<>>
    /\ events = <<>>
    /\ probes = <<>>
    /\ stdout = <<>>
    /\ stderr = <<>>
    /\ exitCode = -1
    /\ call = NoCall
    /\ ret = NoPath

Init == InitRun(ArgLists, MaxMainLines, {"(v1)"}, BOOLEAN)

\* filepath.Abs when os.Getwd succeeds, or is not needed
Abs(path) == IF IsAbs(path) THEN Clean(path) ELSE Clean(Cwd \o path)

\* main with no argument: flag.Usage() and os.Exit(1)
Usage ==
    /\ pc = "main"
    /\ Len(args) = 0
    /\ stderr' = Append(stderr, OutLine("usage: totool [flags] file...\n", NoPath, NoPath, ""))
    /\ exitCode' = 1
    /\ pc' = "exited"
    /\ UNCHANGED <<fixed, argIdx, root, toVisit, visited, otool, linesLeft, errs,
                   events, probes, stdout>>

\* mutant: the visited map outlives the call of walk
walkVisitedShared == visited

\* the state of walk before its loop: the queue holds the root alone
walkToVisit(r) == <<dependency(r, "")>>
walkVisited == {}

\* main calls walk(args[argIdx], pt); walk runs up to its loop
WalkBegin ==
    /\ pc = "main"
    /\ argIdx <= Len(args)
    /\ root' = Abs(args[argIdx])
    /\ events' = Append(events, Event(argIdx, "prologue", NoPath, "", NoPath))
    /\ stdout' = stdout \o printPrologue
    /\ toVisit' = walkToVisit(root')
    /\ visited' = walkVisited
    /\ pc' = "walk"
    /\ UNCHANGED <<fixed, argIdx, otool, linesLeft, errs, probes, stderr, exitCode>>

\* mutant: an error of walk is fatal (log.Fatalf in place of log.Printf)
mainAfterFatal(err) ==
    IF err = "" THEN [pc |-> "main", argIdx |-> argIdx + 1, exitCode |-> exitCode]
                ELSE [pc |-> "exited", argIdx |-> argIdx, exitCode |-> 1]

\* main after walk returned err: it logs an error and goes on to the next root
mainAfter(err) == [pc |-> "main", argIdx |-> argIdx + 1, exitCode |-> exitCode]

\* what main logs for an error of walk
mainLog(err, bin) ==
    IF err = "" THEN <<>> ELSE <<OutLine("totool: %s: %v\n", args[argIdx], bin, err)>>

\* main calls walk, filepath.Abs fails (os.Getwd fails), main logs the error
WalkAbsFail ==
    /\ pc = "main"
    /\ argIdx <= Len(args)
    /\ ~IsAbs(args[argIdx])
    /\ LET err == "cannot get %q absolute path: %v"
           m == mainAfter(err)
       IN  /\ errs' = Append(errs, err)
           /\ stderr' = stderr \o mainLog(err, NoPath)
           /\ pc' = m.pc
           /\ argIdx' = m.argIdx
           /\ exitCode' = m.exitCode
    /\ UNCHANGED <<fixed, root, toVisit, visited, otool, linesLeft, events, probes, stdout>>

\* the printer call for the node walk enters
nodeEvent(from) ==
    IF from.bin = root
      THEN Event(argIdx, "root", root, "", NoPath)
      ELSE Event(argIdx, "dep", from.bin, from.info, NoPath)
nodeLines(from) == IF from.bin = root THEN printRootBin(root) ELSE printDepBin(from)

\* mutant: printDep is called with its arguments swapped
edgeEventsSwapped(from, new) ==
    [k \in 1..Len(new) |-> Event(argIdx, "edge", new[k].bin, "", from.bin)]

\* the printer calls of the loop over toVisit[i:]
edgeEvents(from, new) ==
    [k \in 1..Len(new) |-> Event(argIdx, "edge", from.bin, "", new[k].bin)]
RECURSIVE edgeLines(_, _)
edgeLines(from, new) ==
    IF new = <<>> THEN <<>>
    ELSE printDep(from.bin, Head(new).bin) \o edgeLines(from, Tail(new))

\* mutant: the front entry is read and never taken off the queue
dequeueKeep(q) == [from |-> Head(q), rest |-> q]

\* mutant: the queue is used as a stack
dequeueLast(q) == [from |-> Last(q), rest |-> Front(q)]

\* the queue after `from, toVisit = toVisit[0], toVisit[1:]`
dequeue(q) == [from |-> Head(q), rest |-> Tail(q)]

\* mutant: the entry is never marked
markNothing(v, bin) == v

\* mutant: the visited map is never consulted
seenNever(v, bin) == FALSE

\* visited[bin], and the set after visited[bin] = true
seen(v, bin) == bin \in v
mark(v, bin) == v \cup {bin}

\* mutant: the slice starts one entry late
appendedSkipFirst(rest, deps) == SubSeq(deps, Len(rest) + 2, Len(deps))

\* the slice walk prints the edges of: toVisit[i:]
appended(rest, deps) == SubSeq(deps, Len(rest) + 1, Len(deps))

\* one turn of walk's loop on an entry that is already visited
SkipVisited ==
    /\ pc = "walk"
    /\ toVisit # <<>>
    /\ LET d == dequeue(toVisit) IN
        /\ seen(visited, d.from.bin)
        /\ toVisit' = d.rest
    /\ UNCHANGED <<fixed, pc, argIdx, root, visited, otool, linesLeft, errs, events,
                   probes, stdout, stderr, exitCode>>

\* one turn of walk's loop on a new entry whose probe succeeds
Visit ==
    /\ pc = "walk"
    /\ toVisit # <<>>
    /\ LET d == dequeue(toVisit) IN
        /\ ~seen(visited, d.from.bin)
        /\ \E res \in Output(d.from.bin) :
             LET r == appendDirectDeps(d.rest, d.from.bin, res) IN
               /\ r.err = "" /\ r.panic = ""
               /\ probes' = Append(probes, Probe(argIdx, d.from.bin))
               /\ otool' = Probed(d.from.bin, res)
               /\ linesLeft' = Left(d.from.bin, res)
               /\ visited' = mark(visited, d.from.bin)
               /\ toVisit' = r.deps
               /\ events' = events \o <<nodeEvent(d.from)>>
                              \o edgeEvents(d.from, appended(d.rest, r.deps))
               /\ stdout' = stdout \o nodeLines(d.from)
                              \o edgeLines(d.from, appended(d.rest, r.deps))
    /\ UNCHANGED <<fixed, pc, argIdx, root, errs, stderr, exitCode>>

\* mutant: walk drops the error of the probe and goes on with its queue
VisitFailGoesOn ==
    /\ pc = "walk"
    /\ toVisit # <<>>
    /\ LET d == dequeue(toVisit) IN
        /\ ~seen(visited, d.from.bin)
        /\ \E res \in Output(d.from.bin) :
             LET r == appendDirectDeps(d.rest, d.from.bin, res) IN
               /\ r.err # "" /\ r.panic = ""
               /\ probes' = Append(probes, Probe(argIdx, d.from.bin))
               /\ otool' = Probed(d.from.bin, res)
               /\ linesLeft' = Left(d.from.bin, res)
               /\ visited' = mark(visited, d.from.bin)
               /\ toVisit' = r.deps
               /\ events' = events \o <<nodeEvent(d.from)>>
               /\ stdout' = stdout \o nodeLines(d.from)
    /\ UNCHANGED <<fixed, pc, argIdx, root, errs, stderr, exitCode>>

\* mutant: printEpilogue is not deferred, it is called before `return nil` only
VisitFailNoEpilogue ==
    /\ pc = "walk"
    /\ toVisit # <<>>
    /\ LET d == dequeue(toVisit) IN
        /\ ~seen(visited, d.from.bin)
        /\ \E res \in Output(d.from.bin) :
             LET r == appendDirectDeps(d.rest, d.from.bin, res)
                 m == mainAfter(r.err)
             IN
               /\ r.err # "" /\ r.panic = ""
               /\ probes' = Append(probes, Probe(argIdx, d.from.bin))
               /\ otool' = Probed(d.from.bin, res)
               /\ linesLeft' = Left(d.from.bin, res)
               /\ visited' = mark(visited, d.from.bin)
               /\ toVisit' = r.deps
               /\ events' = events \o <<nodeEvent(d.from)>>
               /\ stdout' = stdout \o nodeLines(d.from)
               /\ errs' = Append(errs, r.err)
               /\ stderr' = stderr
                     \o (IF res.exit # 0
                           THEN <<OutLine("%s", d.from.bin, NoPath, "otool stderr")>>
                           ELSE <<>>)
                     \o mainLog(r.err, d.from.bin)
               /\ pc' = m.pc
               /\ argIdx' = m.argIdx
               /\ exitCode' = m.exitCode
    /\ UNCHANGED <<fixed, root>>

\* one turn of walk's loop on a new entry whose probe returns an error: walk
\* returns it (the deferred printEpilogue runs) and main logs it
VisitFail ==
    /\ pc = "walk"
    /\ toVisit # <<>>
    /\ LET d == dequeue(toVisit) IN
        /\ ~seen(visited, d.from.bin)
        /\ \E res \in Output(d.from.bin) :
             LET r == appendDirectDeps(d.rest, d.from.bin, res)
                 m == mainAfter(r.err)
             IN
               /\ r.err # "" /\ r.panic = ""
               /\ probes' = Append(probes, Probe(argIdx, d.from.bin))
               /\ otool' = Probed(d.from.bin, res)
               /\ linesLeft' = Left(d.from.bin, res)
               /\ visited' = mark(visited, d.from.bin)
               /\ toVisit' = r.deps
               /\ events' = events \o <<nodeEvent(d.from),
                                        Event(argIdx, "epilogue", NoPath, "", NoPath)>>
               /\ stdout' = stdout \o nodeLines(d.from) \o printEpilogue
               /\ errs' = Append(errs, r.err)
               /\ stderr' = stderr
                     \o (IF res.exit # 0
                           THEN <<OutLine("%s", d.from.bin, NoPath, "otool stderr")>>
                           ELSE <<>>)
                     \o mainLog(r.err, d.from.bin)
               /\ pc' = m.pc
               /\ argIdx' = m.argIdx
               /\ exitCode' = m.exitCode
    /\ UNCHANGED <<fixed, root>>

\* one turn of walk's loop on a new entry whose probe panics: the deferred
\* printEpilogue runs and the process dies with exit code 2
VisitPanic ==
    /\ pc = "walk"
    /\ toVisit # <<>>
    /\ LET d == dequeue(toVisit) IN
        /\ ~seen(visited, d.from.bin)
        /\ \E res \in Output(d.from.bin) :
             LET r == appendDirectDeps(d.rest, d.from.bin, res) IN
               /\ r.panic # ""
               /\ probes' = Append(probes, Probe(argIdx, d.from.bin))
               /\ otool' = Probed(d.from.bin, res)
               /\ linesLeft' = Left(d.from.bin, res)
               /\ visited' = mark(visited, d.from.bin)
               /\ toVisit' = d.rest
               /\ events' = events \o <<nodeEvent(d.from),
                                        Event(argIdx, "epilogue", NoPath, "", NoPath)>>
               /\ stdout' = stdout \o nodeLines(d.from) \o printEpilogue
               /\ stderr' = Append(stderr, OutLine("panic: %s\n", d.from.bin, NoPath, r.panic))
    /\ pc' = "panic"
    /\ exitCode' = 2
    /\ UNCHANGED <<fixed, argIdx, root, errs>>

\* walk's loop ends on an empty queue: walk returns nil
WalkEnd ==
    /\ pc = "walk"
    /\ toVisit = <<>>
    /\ events' = Append(events, Event(argIdx, "epilogue", NoPath, "", NoPath))
    /\ stdout' = stdout \o printEpilogue
    /\ LET m == mainAfter("")
       IN  /\ errs' = Append(errs, "")
           /\ stderr' = stderr \o mainLog("", NoPath)
           /\ pc' = m.pc
           /\ argIdx' = m.argIdx
           /\ exitCode' = m.exitCode
    /\ UNCHANGED <<fixed, root, toVisit, visited, otool, linesLeft, probes>>

\* mutant: main exits with code 1 when a walk returned an error
ExitFailure ==
    /\ pc = "main"
    /\ Len(args) > 0
    /\ argIdx > Len(args)
    /\ exitCode' = IF \E k \in DOMAIN errs : errs[k] # "" THEN 1 ELSE 0
    /\ pc' = "exited"
    /\ UNCHANGED <<fixed, argIdx, root, toVisit, visited, otool, linesLeft, errs,
                   events, probes, stdout, stderr>>

\* main returns after its loop
Exit ==
    /\ pc = "main"
    /\ Len(args) > 0
    /\ argIdx > Len(args)
    /\ exitCode' = 0
    /\ pc' = "exited"
    /\ UNCHANGED <<fixed, argIdx, root, toVisit, visited, otool, linesLeft, errs,
                   events, probes, stdout, stderr>>

Next ==
    \/ Usage
    \/ WalkBegin
    \/ WalkAbsFail
    \/ SkipVisited
    \/ Visit
    \/ VisitFail
    \/ VisitPanic
    \/ WalkEnd
    \/ Exit

Spec == Init /\ [][Next]_vars

\* the program is one sequential process: a step that can be taken is taken
FairSpec == Spec /\ WF_vars(Next)

\* A run with exactly one root argument, on a larger dependency graph
WalkInit == InitRun([1..1 -> ArgPaths], MaxLines, {"(v1)"}, BOOLEAN)

WalkNext ==
    \/ WalkBegin
    \/ WalkAbsFail
    \/ SkipVisited
    \/ Visit
    \/ VisitFail
    \/ VisitPanic
    \/ WalkEnd
    \/ Exit

WalkSpec == WalkInit /\ [][WalkNext]_vars

FairWalkSpec == WalkSpec /\ WF_vars(WalkNext)

\* A run of the text printer with one root argument
TextInit == InitRun([1..1 -> ArgPaths], MaxTextLines, Infos, {FALSE})

TextSpec == TextInit /\ [][WalkNext]_vars

----------------------------------------------------------------------------
(* resolveDepPath on its own *)

Segs == {"", ".", "..", "lib", "x.dylib"}

\* the paths otool may report: the marker followed by up to MaxRel segments,
\* and paths without the marker
ResolvePaths ==
    {<<"@executable_path">> \o r : r \in UNION {[1..n -> Segs] : n \in 1..MaxRel}}
      \cup {<<"@executable_path">>, <<"@executable_pathx", "lib">>, <<"@rpath", "x.dylib">>,
            <<"", "usr", "lib", "x.dylib">>, <<"", "usr", "..", "lib", ".", "x.dylib">>,
            <<"x", "@executable_path", "lib">>, <<"lib", "", "x.dylib">>}

ResolveBins ==
    {App, <<"", "opt", "app", "bin", "app">>, <<"", "app">>, <<"app">>, <<"bin", "app">>,
     <<"", "opt", "..", "bin", "app">>, <<"..", "app">>}

ResolveInit ==
    /\ pc = "resolve"
    /\ call \in [bin : ResolveBins, path : ResolvePaths]
    /\ ret = NoPath
    /\ args = <<>> /\ linesLeft = 0 /\ infos = {} /\ verbose = FALSE /\ dot = FALSE
    /\ argIdx = 1 /\ root = NoPath /\ toVisit = <<>> /\ visited = {} /\ otool = <<>>
    /\ errs = <<>> /\ events = <<>> /\ probes = <<>> /\ stdout = <<>> /\ stderr = <<>>
    /\ exitCode = -1

ResolveCall ==
    /\ pc = "resolve"
    /\ ret' = resolveDepPath(call.bin, call.path)
    /\ pc' = "resolved"
    /\ UNCHANGED <<args, verbose, dot, argIdx, root, toVisit, visited, otool,
                   linesLeft, infos, errs, events, probes, stdout, stderr, exitCode, call>>

ResolveNext == ResolveCall

ResolveSpec == ResolveInit /\ [][ResolveNext]_vars

----------------------------------------------------------------------------
(* The dependency graph otool describes, and what a walk printed *)

\* otool ran on n and every line after the first is a dependency line
ProbeOK(n) ==
    /\ n \in DOMAIN otool
    /\ otool[n].ran /\ otool[n].exit = 0
    /\ \A k \in 2..Len(otool[n].out) : otool[n].out[k].kind = "dep"

\* the binaries n depends on, n itself left out
Succ(n) ==
    IF ProbeOK(n)
      THEN {resolveDepPath(n, otool[n].out[k].path) : k \in 2..Len(otool[n].out)} \ {n}
      ELSE {}

\* the dependency graph, as far as otool was asked
Graph == [n \in DOMAIN otool |-> Succ(n)]
SuccIn(g, n) == IF n \in DOMAIN g THEN g[n] ELSE {}

RECURSIVE ReachIn(_, _)
ReachIn(g, S) ==
    LET T == S \cup UNION {SuccIn(g, n) : n \in S}
    IN  IF T = S THEN S ELSE ReachIn(g, T)

ReachFrom(S) == ReachIn(Graph, S)

\* the binaries reachable from r, r included
Reach(r) == ReachFrom({r})

Acyclic(r) ==
    LET g == Graph IN \A n \in ReachIn(g, {r}) : n \notin ReachIn(g, SuccIn(g, n))

\* the length of the shortest path from a binary of S to n, plus k, for n
\* reachable from S
RECURSIVE DistIn(_, _, _, _)
DistIn(g, S, n, k) ==
    IF n \in S THEN k ELSE DistIn(g, S \cup UNION {SuccIn(g, m) : m \in S}, n, k + 1)
Dist(r, n) == DistIn(Graph, {r}, n, 0)

IsNode(e) == e.ev \in {"root", "dep"}
IsEdge(e) == e.ev = "edge"

\* the printer calls of the walk of argument number w, and its node calls
WalkEvents(w) == LET of(e) == e.walk = w IN SelectSeq(events, of)
NodeEvents(w) == LET of(e) == e.walk = w /\ IsNode(e) IN SelectSeq(events, of)
EdgeEvents(w) == LET of(e) == e.walk = w /\ IsEdge(e) IN SelectSeq(events, of)

Range(f) == {f[k] : k \in DOMAIN f}
Injective(f) == \A i, j \in DOMAIN f : f[i] = f[j] => i = j
Bins(evs) == [k \in DOMAIN evs |-> evs[k].bin]

\* the walk of argument number w has returned nil
Returned(w) == w <= Len(errs) /\ errs[w] = ""

----------------------------------------------------------------------------
(* Properties *)

\* C1: when a walk over an acyclic dependency graph returns without a probe
\* failure, its node events (one root event, then dependency-node events)
\* name exactly the binaries reachable from the root, each exactly once.
C1_ReachableOnce ==
    \A w \in 1..Len(errs) :
        (Returned(w) /\ Acyclic(Abs(args[w]))) =>
            LET nodes == NodeEvents(w) IN
              /\ Range(Bins(nodes)) = Reach(Abs(args[w]))
              /\ Injective(Bins(nodes))
              /\ \A k \in DOMAIN nodes : nodes[k].ev = "root" <=> nodes[k].bin = Abs(args[w])

\* a walk that returned nil on a diamond: two dependencies of the root share
\* a dependency
C1_Witness ==
    /\ Returned(1) /\ Acyclic(Abs(args[1]))
    /\ \E a, b \in Succ(Abs(args[1])) :
         /\ a # b
         /\ \E c \in Succ(a) \cap Succ(b) : c \notin {a, b, Abs(args[1])}

Done == pc \in {"exited", "panic"}

\* C2: every walk terminates, on graphs with cycles too, and when it returns
\* without a probe failure the queue is empty and every binary reachable from
\* the root has been rendered exactly once.
C2_CyclesTerminate ==
    /\ <>Done
    /\ [](\A w \in 1..Len(errs) :
            Returned(w) =>
              /\ w = Len(errs) => toVisit = <<>>
              /\ Range(Bins(NodeEvents(w))) = Reach(Abs(args[w]))
              /\ Injective(Bins(NodeEvents(w))))

\* a walk that returned nil on a graph where a dependency leads back to the
\* root and two other binaries depend on each other
C2_Witness ==
    /\ Returned(1)
    /\ Abs(args[1]) \in ReachFrom(Succ(Abs(args[1])))
    /\ \E a, b \in Reach(Abs(args[1])) \ {Abs(args[1])} : a # b /\ a \in Succ(b) /\ b \in Succ(a)

ProbeError(w) == w <= Len(errs) /\ errs[w] = "otool error when processing %s"
AbsError(w) == w <= Len(errs) /\ errs[w] = "cannot get %q absolute path: %v"

\* the root of argument number w has been rendered
Walked(w) ==
    \E k \in DOMAIN events :
        events[k].walk = w /\ events[k].ev = "root" /\ events[k].bin = Abs(args[w])

\* C3: when the probe of a node fails with a non-zero exit code during the
\* walk of one root argument, main still calls walk for every later argument,
\* in order, and each later root whose path resolves is rendered.
C3_LaterRootsWalked ==
    /\ pc \in {"main", "walk"} => Len(errs) = argIdx - 1
    /\ (pc = "exited" /\ Len(args) > 0) => Len(errs) = Len(args)
    /\ \A w \in 1..Len(args) : \A v \in (w + 1)..Len(args) :
         (ProbeError(w) /\ pc = "exited") =>
             /\ v <= Len(errs)
             /\ ~AbsError(v) => Walked(v)

\* the probe of the first root failed and the second root was rendered with
\* a dependency
C3_Witness ==
    /\ pc = "exited" /\ Len(args) = 2
    /\ ProbeError(1)
    /\ Walked(2)
    /\ \E k \in DOMAIN events : events[k].walk = 2 /\ events[k].ev = "dep"

\* otool on n printed an entry that resolves to n itself
SelfEntry(n) ==
    /\ ProbeOK(n)
    /\ \E k \in 2..Len(otool[n].out) : resolveDepPath(n, otool[n].out[k].path) = n

\* how many entries of sequence q satisfy P
CountIn(q, P(_)) == Cardinality({k \in DOMAIN q : P(q[k])})

\* C4: no edge event goes from a binary to itself; a binary whose otool output
\* names the binary itself gets one node event at most; and the queue holds,
\* for each path, no more entries than the edges that reached it from other
\* binaries (one more for the root).
C4_NoSelfEdge ==
    /\ \A k \in DOMAIN events : IsEdge(events[k]) => events[k].bin # events[k].to
    /\ \A w \in 1..Len(args) : \A n \in DOMAIN otool :
         SelfEntry(n) =>
             LET isN(e) == e.bin = n IN CountIn(NodeEvents(w), isN) <= 1
    /\ pc = "walk" =>
         \A p \in {toVisit[k].bin : k \in DOMAIN toVisit} :
             LET inQueue(d) == d.bin = p
                 into(e) == e.to = p /\ e.bin # p
             IN  CountIn(toVisit, inQueue)
                   <= CountIn(EdgeEvents(argIdx), into) + (IF p = root THEN 1 ELSE 0)

\* a walk that returned nil visited a binary whose own path otool printed
\* as such, and one whose own path otool printed with the marker
C4_Witness ==
    /\ Returned(1)
    /\ \E n, m \in Reach(Abs(args[1])) :
         /\ \E k \in 2..Len(otool[n].out) : otool[n].out[k].path = n
         /\ \E k \in 2..Len(otool[m].out) :
              /\ HasPrefix(otool[m].out[k].path, relPrefix)
              /\ resolveDepPath(m, otool[m].out[k].path) = m

\* the entries the prober appends for n
ProberDeps(n) == appendDirectDeps(<<>>, n, otool[n]).deps

EdgeFmt == "\t\"%s\" -> \"%s\";\n"

\* C5: for every node a walk visits, the edge events from it are, in order,
\* one per entry the prober appended for it when its probe succeeded, whether
\* the target was visited before or not, and none when the probe failed; every
\* edge event comes from a visited node.  With -dot the edge lines of the
\* output are these edges, in order.
C5_EdgePerEntry ==
    /\ \A w \in 1..Len(args) :
         LET edges == EdgeEvents(w)
             bins == Range(Bins(NodeEvents(w)))
         IN  /\ \A n \in bins :
                  LET from(e) == e.bin = n
                      es == SelectSeq(edges, from)
                      deps == ProberDeps(n)
                  IN  IF ProbeOK(n)
                        THEN [k \in DOMAIN es |-> es[k].to] = [k \in DOMAIN deps |-> deps[k].bin]
                        ELSE es = <<>>
             /\ \A k \in DOMAIN edges : edges[k].bin \in bins
    /\ LET isLine(l) == l.fmt = EdgeFmt
           edges == SelectSeq(events, IsEdge)
       IN  SelectSeq(stdout, isLine) =
             IF dot THEN [k \in DOMAIN edges |-> OutLine(EdgeFmt, edges[k].bin, edges[k].to, "")]
                    ELSE <<>>

\* with -dot, an edge was printed to a binary that was rendered before
C5_Witness ==
    /\ dot
    /\ \E k \in DOMAIN events : \E j \in 1..(k - 1) :
         /\ IsEdge(events[k]) /\ IsNode(events[j])
         /\ events[j].walk = events[k].walk
         /\ events[j].bin = events[k].to
         /\ \E i \in DOMAIN stdout :
              stdout[i] = OutLine(EdgeFmt, events[k].bin, events[k].to, "")

\* C6: in a walk the root is rendered first, and a binary rendered before
\* another is no farther from the root (in edges of the shortest path).
C6_BreadthFirst ==
    \A w \in 1..Len(args) :
        LET nodes == NodeEvents(w)
            r == Abs(args[w])
            g == Graph
            reach == ReachIn(g, {r})
            dist == [k \in DOMAIN nodes |->
                        IF nodes[k].bin \in reach THEN DistIn(g, {r}, nodes[k].bin, 0) ELSE -1]
        IN  /\ nodes # <<>> => (nodes[1].ev = "root" /\ nodes[1].bin = r)
            /\ \A j \in DOMAIN nodes : dist[j] >= 0
            /\ \A i, j \in DOMAIN nodes : i < j => dist[i] <= dist[j]

\* a walk that returned nil rendered two dependencies of the root and then a
\* dependency of the second of them that the root does not depend on
C6_Witness ==
    /\ Returned(1)
    /\ LET nodes == NodeEvents(1)
           r == Abs(args[1])
       IN  \E i, j, k \in DOMAIN nodes :
             /\ i < j /\ j < k
             /\ nodes[i].bin \in Succ(r) /\ nodes[j].bin \in Succ(r)
             /\ nodes[k].bin \in Succ(nodes[j].bin) \ (Succ(r) \cup Succ(nodes[i].bin))
             /\ Dist(r, nodes[k].bin) > Dist(r, nodes[j].bin)

\* what otool answered for bin, or that it could not be run when it was not
\* asked in this run
Answer(bin) ==
    IF bin \in DOMAIN otool THEN otool[bin] ELSE [ran |-> FALSE, exit |-> 0, out |-> <<>>]

\* The printer calls walk makes from queue q and visited set v on root r, as
\* the walk of argument number w, given otool's answers.
RECURSIVE RefLoop(_, _, _, _)
RefLoop(w, r, q, v) ==
    IF q = <<>> THEN <<Event(w, "epilogue", NoPath, "", NoPath)>>
    ELSE LET from == Head(q)
             rest == Tail(q)
         IN  IF from.bin \in v THEN RefLoop(w, r, rest, v)
             ELSE LET a == appendDirectDeps(rest, from.bin, Answer(from.bin))
                      node == IF from.bin = r
                                THEN Event(w, "root", r, "", NoPath)
                                ELSE Event(w, "dep", from.bin, from.info, NoPath)
                      new == SubSeq(a.deps, Len(rest) + 1, Len(a.deps))
                  IN  IF a.err # "" \/ a.panic # ""
                        THEN <<node, Event(w, "epilogue", NoPath, "", NoPath)>>
                        ELSE <<node>>
                               \o [k \in DOMAIN new |-> Event(w, "edge", from.bin, "", new[k].bin)]
                               \o RefLoop(w, r, a.deps, v \cup {from.bin})

\* the printer calls of a walk of r that starts with nothing visited and r
\* alone in the queue
RefWalk(w, r) ==
    <<Event(w, "prologue", NoPath, "", NoPath)>> \o RefLoop(w, r, <<dependency(r, "")>>, {})

\* C7: every walk starts from an empty visited set and a queue that holds the
\* root alone, and the events of a walk that has ended are those of a walk of
\* its root on its own, whatever was walked before it; so a walk that
\* returned nil rendered every binary reachable from its root, those rendered
\* for earlier roots too.
C7_FreshPerRoot ==
    /\ (pc = "walk" /\ NodeEvents(argIdx) = <<>>) =>
           (visited = {} /\ toVisit = <<dependency(root, "")>>)
    /\ \A w \in 1..Len(errs) :
         /\ ~AbsError(w) => WalkEvents(w) = RefWalk(w, Abs(args[w]))
         /\ Returned(w) => Range(Bins(NodeEvents(w))) = Reach(Abs(args[w]))
    /\ pc = "panic" => WalkEvents(argIdx) = RefWalk(argIdx, Abs(args[argIdx]))

\* two walks returned nil and the second rendered a library the first had
\* rendered
C7_Witness ==
    /\ pc = "exited" /\ Returned(1) /\ Returned(2)
    /\ \E i, j \in DOMAIN events :
         /\ events[i].walk = 1 /\ events[j].walk = 2
         /\ events[i].ev = "dep" /\ events[j].ev = "dep"
         /\ events[i].bin = events[j].bin

\* the info strings otool printed for entries that resolve to p
InfosFor(p) ==
    UNION {{otool[n].out[k].info :
               k \in {j \in 2..Len(otool[n].out) : resolveDepPath(n, otool[n].out[j].path) = p}}
             : n \in {m \in DOMAIN otool : ProbeOK(m)}}

\* C8: the output of the text printer for a walk that returned nil is the
\* line `<root>:` followed by one line per other reachable binary and nothing
\* else: a tab and the path, and with -v a space and an info string otool
\* printed for that path.
C8_TextOutput ==
    (~dot /\ Returned(1) /\ Len(args) = 1) =>
        LET r == Abs(args[1]) IN
          /\ Len(stdout) = Cardinality(Reach(r))
          /\ stdout[1] = OutLine("%s:\n", r, NoPath, "")
          /\ \A k \in 2..Len(stdout) :
               /\ stdout[k].a \in Reach(r) \ {r}
               /\ stdout[k].b = NoPath
               /\ IF verbose
                    THEN stdout[k].fmt = "\t%s %s\n" /\ stdout[k].s \in InfosFor(stdout[k].a)
                    ELSE stdout[k].fmt = "\t%s\n" /\ stdout[k].s = ""
          /\ \A j, k \in 2..Len(stdout) : stdout[j].a = stdout[k].a => j = k

\* with -v, a walk that returned nil printed two dependencies with different
\* info strings, one of them reported twice
C8_Witness ==
    /\ ~dot /\ verbose /\ Returned(1)
    /\ Len(stdout) = 3
    /\ stdout[2].s # stdout[3].s
    /\ Len(EdgeEvents(1)) = 3

\* no "." segment, no empty segment after the first, and ".." segments only at
\* the start of a path that is not absolute
NormalForm(p) ==
    \/ p = <<".">>
    \/ p = <<"", "">>
    \/ /\ \A k \in DOMAIN p : p[k] # "."
       /\ \A k \in 2..Len(p) : p[k] # ""
       /\ Len(p) = 1 => p[1] # ""
       /\ \A k \in DOMAIN p :
            p[k] = ".." => (p[1] # "" /\ \A j \in 1..k : p[j] = "..")

Plain(p) == \A k \in DOMAIN p : p[k] \notin {"", ".", ".."}

\* C9: for a path that begins with `@executable_path/`, resolveDepPath gives
\* the directory of bin followed by the rest of the path, cleaned: no "." or
\* empty segment is left and no ".." after a named segment; when nothing is to
\* be cleaned it is the directory of bin followed by the rest.  Any other
\* path is returned as it is.
C9_ResolveDepPath ==
    pc = "resolved" =>
        IF Len(call.path) >= 2 /\ call.path[1] = "@executable_path"
          THEN LET rest == Tail(call.path) IN
                 /\ NormalForm(ret)
                 /\ ret = Clean(Dir(call.bin) \o rest)
                 /\ (IsAbs(call.bin) /\ Plain(Tail(call.bin)) /\ Len(call.bin) > 2 /\ Plain(rest))
                      => ret = Front(call.bin) \o rest
                 /\ (call.bin = <<"", "opt", "app", "bin", "app">>
                       /\ call.path = <<"@executable_path", "..", "lib", "x.dylib">>)
                      => ret = <<"", "opt", "app", "lib", "x.dylib">>
          ELSE ret = call.path

\* `@executable_path/../lib/x.dylib` was resolved from `/opt/app/bin/app`
C9_Witness ==
    /\ pc = "resolved"
    /\ call.bin = <<"", "opt", "app", "bin", "app">>
    /\ call.path = <<"@executable_path", "..", "lib", "x.dylib">>
    /\ ret = <<"", "opt", "app", "lib", "x.dylib">>

\* a line that depRe does not match was read in this run
ReadNoMatch ==
    \E n \in DOMAIN otool :
        /\ otool[n].ran /\ otool[n].exit = 0
        /\ \E k \in 2..Len(otool[n].out) : otool[n].out[k].kind = "nomatch"

\* C10: a line that depRe does not match ends the run where it is read (the
\* node being probed is the last one rendered and no later root is walked),
\* and nothing else keeps a later root argument from being walked.
C10_OnlyMismatchStopsRun ==
    /\ ReadNoMatch =>
         /\ pc = "panic"
         /\ \A k \in DOMAIN events : events[k].walk <= argIdx
         /\ Len(errs) = argIdx - 1
    /\ (pc = "panic" /\ argIdx < Len(args)) => ReadNoMatch

\* the first half of C10 alone
C10_MismatchStopsRun ==
    ReadNoMatch =>
         /\ pc = "panic"
         /\ \A k \in DOMAIN events : events[k].walk <= argIdx
         /\ Len(errs) = argIdx - 1

\* otool could not be run on a binary probed in this run
NotRun == \E n \in DOMAIN otool : ~otool[n].ran

\* the original statement of C11: with no path argument the process exits
\* with code 1 before any probe or printer call, and with at least one it
\* ends with code 0 whatever happened during the walks.
C11_ExitCodeOnlyUsage ==
    /\ Len(args) = 0 => (events = <<>> /\ otool = <<>> /\ stdout = <<>>)
    /\ Done => exitCode = (IF Len(args) = 0 THEN 1 ELSE 0)

\* C11: with no path argument the process prints the usage line and exits
\* with code 1 before any probe or printer call.  With at least one, the exit
\* code is 0 when main returns, whatever errors the walks returned (a path that
\* does not resolve, a probe that exits with a non-zero code, a line too long
\* to scan), and 2 when a walk panics, which happens only on a line depRe does
\* not match or when otool could not be run.
C11_ExitCode ==
    /\ Len(args) = 0 =>
         /\ events = <<>> /\ otool = <<>> /\ stdout = <<>> /\ errs = <<>>
         /\ pc \in {"main", "exited"}
         /\ pc = "exited" =>
              (exitCode = 1
                 /\ stderr = <<OutLine("usage: totool [flags] file...\n", NoPath, NoPath, "")>>)
    /\ (Len(args) > 0 /\ pc = "exited") => (exitCode = 0 /\ Len(errs) = Len(args))
    /\ pc = "panic" => (exitCode = 2 /\ Len(args) > 0 /\ (ReadNoMatch \/ NotRun))
    /\ (ReadNoMatch \/ NotRun) => pc = "panic"
    /\ ~Done <=> exitCode = -1

\* main returned with code 0 after the path of the first root did not resolve
\* and the probe of the second failed
C11_Witness ==
    /\ pc = "exited" /\ exitCode = 0
    /\ Len(args) = 2
    /\ AbsError(1) /\ ProbeError(2)

\* a step of walk's loop on a new entry, whose probe returned to walk
Probes == pc = "walk" /\ toVisit # <<>> /\ ~seen(visited, Head(toVisit).bin) /\ pc' # "panic"

\* the entries that a step of walk's loop appends to the queue
Enqueued == SubSeq(toVisit', Len(toVisit), Len(toVisit'))

\* the original statement of C12: a dependency that walk appends to the queue
\* is not in the visited set at that moment.
C12_EnqueuedNotVisited ==
    [][Probes => \A k \in DOMAIN Enqueued : Enqueued[k].bin \notin visited']_vars

\* C12: the entries walk appends to the queue when it probes a node are those
\* the prober found for it, in order, behind the entries that were waiting.
\* None of them is the probed node itself: that one is filtered out.  No other
\* check is made when an entry is appended, so a path that is already visited
\* can be appended; a path in the visited set has been rendered, and is
\* rendered once only.
C12_EnqueuedNotSelf ==
    /\ [][Probes =>
            LET from == Head(toVisit) IN
              /\ toVisit' = Tail(toVisit) \o Enqueued
              /\ Enqueued = appendDirectDeps(<<>>, from.bin, otool'[from.bin]).deps
              /\ \A k \in DOMAIN Enqueued : Enqueued[k].bin # from.bin
              /\ visited' = visited \cup {from.bin}]_vars
    /\ [](pc = "walk" =>
            /\ visited = Range(Bins(NodeEvents(argIdx)))
            /\ Injective(Bins(NodeEvents(argIdx))))

\* a walk that returned nil had appended to its queue a path that was in the
\* visited set at that moment
C12_Witness ==
    /\ Returned(1)
    /\ LET evs == WalkEvents(1) IN
         \E j, k \in DOMAIN evs :
             /\ j < k
             /\ IsNode(evs[j]) /\ IsEdge(evs[k])
             /\ evs[k].to = evs[j].bin

\* the calls of appendDirectDeps made by the walk of argument number w
WalkProbes(w) == LET of(b) == b.walk = w IN SelectSeq(probes, of)

\* C13: within one walk the visited set only grows, and a path enters it in the
\* step that renders it and probes it, once.  A turn of the loop on an entry
\* whose path is already visited makes no printer call and no probe, appends
\* nothing to the queue and leaves the visited set as it is.  So appendDirectDeps
\* is called at most once per path in a walk: its calls are, in order, those of
\* the node events of the walk.
C13_VisitedOnce ==
    /\ [][(pc = "walk" /\ toVisit # <<>>) =>
            LET from == Head(toVisit) IN
              IF from.bin \in visited
                THEN /\ events' = events /\ stdout' = stdout /\ stderr' = stderr
                     /\ probes' = probes /\ otool' = otool
                     /\ toVisit' = Tail(toVisit)
                     /\ visited' = visited
                     /\ pc' = "walk"
                ELSE /\ visited' = visited \cup {from.bin}
                     /\ probes' = Append(probes, Probe(argIdx, from.bin))
                     /\ Len(events') > Len(events)
                     /\ IsNode(events'[Len(events) + 1])
                     /\ events'[Len(events) + 1].bin = from.bin
                     /\ \A k \in (Len(events) + 2)..Len(events') : ~IsNode(events'[k])
                     /\ from.bin \in DOMAIN otool']_vars
    /\ [][(pc = "walk" /\ pc' = "walk") => visited \subseteq visited']_vars
    /\ [](/\ Injective(probes)
          /\ \A w \in 1..Len(args) : Bins(WalkProbes(w)) = Bins(NodeEvents(w))
          /\ pc = "walk" => visited = Range(Bins(WalkProbes(argIdx))))

\* two walks returned nil; the first dequeued an entry whose path it had
\* visited, and the second probed a path that the first had probed
C13_Witness ==
    /\ pc = "exited" /\ Returned(1) /\ Returned(2)
    /\ Len(EdgeEvents(1)) + 1 > Len(NodeEvents(1))
    /\ \E i, j \in DOMAIN probes :
         probes[i].walk = 1 /\ probes[j].walk = 2 /\ probes[i].bin = probes[j].bin

\* the error appendDirectDeps returns when otool answers res ("" is nil)
ProbeErr(bin, res) == appendDirectDeps(<<>>, bin, res).err

\* the answer for n among the answers o makes appendDirectDeps return an error
FailedIn(o, n) ==
    /\ n \in DOMAIN o
    /\ appendDirectDeps(<<>>, n, o[n]).panic = ""
    /\ ProbeErr(n, o[n]) # ""
Failed(n) == FailedIn(otool, n)

\* C14: when the probe of a node n fails (otool exits with a non-zero code, or
\* its output cannot be scanned to the end), n has been marked visited and
\* rendered as a node, walk returns the error of the probe at once and main
\* logs it and goes on to the next root: nothing but the epilogue follows n's
\* node event in that walk, no edge event leaves n, the entries that waited in
\* the queue are dropped, and n is not probed again in that walk.
C14_ProbeFailureAborts ==
    /\ [][(Probes /\ FailedIn(otool', Head(toVisit).bin)) =>
            LET n == Head(toVisit).bin
                err == ProbeErr(n, otool'[n])
            IN  /\ n \in visited'
                /\ probes' = Append(probes, Probe(argIdx, n))
                /\ Len(events') = Len(events) + 2
                /\ IsNode(events'[Len(events) + 1]) /\ events'[Len(events) + 1].bin = n
                /\ events'[Len(events) + 2].ev = "epilogue"
                /\ errs' = Append(errs, err)
                /\ Len(stderr') > Len(stderr)
                /\ Last(stderr') = OutLine("totool: %s: %v\n", args[argIdx], n, err)
                /\ pc' = "main" /\ argIdx' = argIdx + 1 /\ exitCode' = exitCode]_vars
    /\ [](\A k \in DOMAIN probes :
            LET w == probes[k].walk
                n == probes[k].bin
                evs == WalkEvents(w)
            IN  Failed(n) =>
                  /\ w <= Len(errs) /\ errs[w] = ProbeErr(n, otool[n])
                  /\ \A j \in DOMAIN probes : probes[j].walk = w => j <= k
                  /\ Len(evs) >= 3
                  /\ IsNode(evs[Len(evs) - 1]) /\ evs[Len(evs) - 1].bin = n
                  /\ evs[Len(evs)].ev = "epilogue"
                  /\ \A j \in DOMAIN evs : IsEdge(evs[j]) => evs[j].bin # n)
    /\ []((pc = "exited" /\ Len(args) > 0) => Len(errs) = Len(args))

\* the probe of a dependency of the first root exited with a non-zero code
\* while another entry waited in the queue, and main is about to walk the
\* second root
C14_Witness ==
    /\ pc = "main" /\ Len(args) = 2 /\ argIdx = 2
    /\ ProbeError(1)
    /\ Len(NodeEvents(1)) = 2
    /\ toVisit # <<>>
    /\ toVisit[1].bin \notin visited

DotHeader == OutLine("digraph G {\n", NoPath, NoPath, "")
DotClose == OutLine("}\n", NoPath, NoPath, "")

\* the walk of argument number w has ended: it returned, or it panicked
Ended(w) == w <= Len(errs) \/ (pc = "panic" /\ w = argIdx)

\* C15: a walk whose root path resolves makes one prologue call, before any
\* node or edge call, and one epilogue call, after all of them, also when it
\* ends early on a probe failure or on a panic; a walk whose root path does
\* not resolve makes no printer call.  With -dot the output is a sequence of
\* blocks, one per walk that resolved: a `digraph G {` line, edge lines, and
\* a `}` line before the next header.
C15_PrologueEpilogue ==
    /\ \A w \in 1..Len(args) :
         LET evs == WalkEvents(w)
             isPro(e) == e.ev = "prologue"
             isEpi(e) == e.ev = "epilogue"
             began == evs # <<>>
         IN  /\ AbsError(w) => evs = <<>>
             /\ (w > argIdx \/ (w = argIdx /\ pc = "main")) => evs = <<>>
             /\ (w < argIdx /\ ~AbsError(w)) => began
             /\ (w = argIdx /\ pc \in {"walk", "panic"}) => began
             /\ began =>
                  /\ evs[1].ev = "prologue"
                  /\ CountIn(evs, isPro) = 1
                  /\ IF Ended(w)
                       THEN CountIn(evs, isEpi) = 1 /\ evs[Len(evs)].ev = "epilogue"
                       ELSE CountIn(evs, isEpi) = 0
    /\ \A j, k \in DOMAIN events : j < k => events[j].walk <= events[k].walk
    /\ LET isBrace(l) == l \in {DotHeader, DotClose}
           braces == SelectSeq(stdout, isBrace)
           isPro(e) == e.ev = "prologue"
       IN  IF dot
             THEN /\ \A k \in DOMAIN braces :
                       braces[k] = (IF k % 2 = 1 THEN DotHeader ELSE DotClose)
                  /\ \A k \in DOMAIN stdout :
                       (k = 1 \/ stdout[k - 1] = DotClose) => stdout[k] = DotHeader
                  /\ Len(braces) = 2 * CountIn(events, isPro) - (IF pc = "walk" THEN 1 ELSE 0)
             ELSE braces = <<>>

\* with -dot main walked two roots: the walk of the first ended on a probe
\* failure after an edge line, the walk of the second returned nil, and each
\* header of the output is closed
C15_Witness ==
    /\ dot /\ pc = "exited" /\ Len(args) = 2
    /\ ProbeError(1) /\ Returned(2)
    /\ Len(EdgeEvents(1)) > 0
    /\ LET isHeader(l) == l = DotHeader
           isClose(l) == l = DotClose
       IN  CountIn(stdout, isHeader) = 2 /\ CountIn(stdout, isClose) = 2

\* C16: in a walk, a dependency-node event for a path comes after an edge
\* event to that path, and an edge event from a node comes after the node
\* event of that node and before the next node event.  So with -dot, where
\* the node calls print nothing, every node visited other than the root is
\* the target of an edge line of the output.
C16_EdgeBeforeNode ==
    \A w \in 1..Len(args) :
        LET evs == WalkEvents(w) IN
          /\ \A k \in DOMAIN evs :
               evs[k].ev = "dep" =>
                   /\ evs[k].bin # Abs(args[w])
                   /\ \E j \in 1..(k - 1) : IsEdge(evs[j]) /\ evs[j].to = evs[k].bin
          /\ \A k \in DOMAIN evs :
               IsEdge(evs[k]) =>
                   \E i \in 1..(k - 1) :
                       /\ IsNode(evs[i]) /\ evs[i].bin = evs[k].bin
                       /\ \A j \in (i + 1)..k : IsEdge(evs[j]) /\ evs[j].bin = evs[k].bin
          /\ dot =>
               \A k \in DOMAIN evs :
                   evs[k].ev = "dep" =>
                       \E i \in DOMAIN stdout :
                           /\ stdout[i].fmt = EdgeFmt
                           /\ stdout[i].b = evs[k].bin
                           /\ stdout[i].a # evs[k].bin

\* with -dot a walk returned nil after it rendered a dependency of a
\* dependency, which the root does not depend on, and a node with two edges
C16_Witness ==
    /\ dot /\ Returned(1)
    /\ LET evs == WalkEvents(1)
           r == Abs(args[1])
       IN  /\ \E k \in DOMAIN evs :
                /\ evs[k].ev = "dep"
                /\ evs[k].bin \notin Succ(r)
           /\ \E j, k \in DOMAIN evs :
                /\ j < k /\ IsEdge(evs[j]) /\ IsEdge(evs[k])
                /\ evs[j].bin = evs[k].bin /\ evs[j].to # evs[k].to

\* the entries that the probes ps[i], ps[i+1], ... appended to the queue, in
\* the order in which they were appended
RECURSIVE EnqueuedBy(_, _)
EnqueuedBy(ps, i) ==
    IF i > Len(ps) THEN <<>>
    ELSE (IF ProbeOK(ps[i].bin) THEN ProberDeps(ps[i].bin) ELSE <<>>) \o EnqueuedBy(ps, i + 1)

\* the info string of the first entry of q for path p
FirstInfo(q, p) ==
    LET first == CHOOSE k \in DOMAIN q : q[k].bin = p /\ \A j \in 1..(k - 1) : q[j].bin # p
    IN  q[first].info

\* C17: the dependency-node event of a path carries the info string of the
\* entry for that path that was appended to the queue first, and with -v the
\* text printer prints that string on the line of the path; a path has one
\* node event, so the info strings of its later entries are not rendered.
C17_FirstInfoRendered ==
    \A w \in 1..Len(args) :
        LET nodes == NodeEvents(w)
            q == EnqueuedBy(WalkProbes(w), 1)
        IN  /\ Injective(Bins(nodes))
            /\ \A k \in DOMAIN nodes :
                 nodes[k].ev = "dep" =>
                     /\ \E j \in DOMAIN q : q[j].bin = nodes[k].bin
                     /\ nodes[k].info = FirstInfo(q, nodes[k].bin)
                     /\ ~dot =>
                          \E i \in DOMAIN stdout :
                              /\ stdout[i].a = nodes[k].bin
                              /\ stdout[i] = (IF verbose
                                                THEN OutLine("\t%s %s\n", nodes[k].bin, NoPath,
                                                             FirstInfo(q, nodes[k].bin))
                                                ELSE OutLine("\t%s\n", nodes[k].bin, NoPath, ""))
                              /\ \A j \in DOMAIN stdout : stdout[j].a = nodes[k].bin => j = i

\* with -v a walk returned nil after two visited nodes reported the same path
\* with different info strings, the root first; the line of that path shows
\* the info string the root reported
C17_Witness ==
    /\ ~dot /\ verbose /\ Returned(1)
    /\ LET r == Abs(args[1])
           q == EnqueuedBy(WalkProbes(1), 1)
       IN  \E i, j \in DOMAIN q :
             /\ i < j
             /\ q[i].bin = q[j].bin /\ q[i].info # q[j].info
             /\ q[i] \in Range(ProberDeps(r))
             /\ q[j] \notin Range(ProberDeps(r))
             /\ \E n \in Succ(r) : n # q[j].bin /\ q[j] \in Range(ProberDeps(n))
             /\ \E k \in DOMAIN stdout :
                  stdout[k] = OutLine("\t%s %s\n", q[i].bin, NoPath, q[i].info)
             /\ \A k \in DOMAIN stdout : stdout[k].s # q[j].info

----------------------------------------------------------------------------
(* The earlier revision of walk, in totool.go *)

\* the scanning loop of the earlier appendDirectDeps: every entry is appended
RECURSIVE oldScanLines(_, _, _, _)
oldScanLines(deps, bin, lines, i) ==
    IF i > Len(lines) THEN [deps |-> deps, err |-> "", panic |-> ""]
    ELSE IF lines[i].kind = "toolong"
      THEN [deps |-> deps, err |-> "bufio.Scanner: token too long", panic |-> ""]
    ELSE IF lines[i].kind # "dep"
      THEN [deps |-> deps, err |-> "", panic |-> "unexpected otool output: %q, matched %v"]
    ELSE oldScanLines(
             Append(deps, dependency(resolveDepPath(bin, lines[i].path), lines[i].info)),
             bin, lines, i + 1)

oldAppendDirectDeps(deps, bin, res) ==
    IF ~res.ran
      THEN [deps |-> deps, err |-> "", panic |-> "interface conversion: error is not *exec.ExitError"]
    ELSE IF res.exit # 0
      THEN [deps |-> deps, err |-> "otool error when processing %s", panic |-> ""]
      ELSE oldScanLines(deps, bin, IF res.out = <<>> THEN <<>> ELSE Tail(res.out), 1)

\* The printer calls the earlier walk makes from queue q and visited set v on
\* root r, given otool's answers.  Its printer has no prologue and no epilogue.
RECURSIVE oldLoop(_, _, _, _)
oldLoop(w, r, q, v) ==
    IF q = <<>> THEN <<>>
    ELSE LET d == Head(q)
             rest == Tail(q)
         IN  IF d.bin \in v THEN oldLoop(w, r, rest, v)
             ELSE LET a == oldAppendDirectDeps(rest, d.bin, Answer(d.bin))
                      node == IF d.bin = r
                                THEN Event(w, "root", r, "", NoPath)
                                ELSE Event(w, "dep", d.bin, d.info, NoPath)
                      new == SubSeq(a.deps, Len(rest) + 1, Len(a.deps))
                  IN  IF a.err # "" \/ a.panic # ""
                        THEN <<node>>
                        ELSE <<node>>
                               \o [k \in DOMAIN new |-> Event(w, "edge", d.bin, "", new[k].bin)]
                               \o oldLoop(w, r, a.deps, v \cup {d.bin})

oldWalk(w, r) == oldLoop(w, r, <<dependency(r, "")>>, {})

\* the earlier textPrinter
oldPrintRootBin(bin) == <<OutLine("%s:\n", bin, NoPath, "")>>
oldPrintDepBin(v, d) ==
    IF v THEN <<OutLine("\t%s %s\n", d.bin, NoPath, d.info)>>
         ELSE <<OutLine("\t%s\n", d.bin, NoPath, "")>>
oldPrintDep(from, to) == <<>>

\* what the earlier textPrinter writes for the printer calls evs
RECURSIVE oldText(_, _)
oldText(evs, v) ==
    IF evs = <<>> THEN <<>>
    ELSE LET e == Head(evs) IN
         (IF e.ev = "root" THEN oldPrintRootBin(e.bin)
          ELSE IF e.ev = "dep" THEN oldPrintDepBin(v, dependency(e.bin, e.info))
          ELSE oldPrintDep(e.bin, e.to))
           \o oldText(Tail(evs), v)

NotSelfEdge(e) == ~(IsEdge(e) /\ e.bin = e.to)

\* C18: on the same answers of otool, a walk of the earlier revision and the
\* walk of the later one make the same root and dependency-node calls, in the
\* same order and with the same info strings, so the text printer writes the
\* same lines; the edge calls of the later walk are those of the earlier one
\* without the self-edges (n, n), in the same order.
C18_RevisionsAgree ==
    \A w \in 1..Len(args) :
        (Ended(w) /\ ~AbsError(w)) =>
            LET old == oldWalk(w, Abs(args[w])) IN
              /\ SelectSeq(old, IsNode) = NodeEvents(w)
              /\ SelectSeq(old, NotSelfEdge) = SelectSeq(WalkEvents(w), LAMBDA e : IsNode(e) \/ IsEdge(e))
              /\ \A k \in DOMAIN events : NotSelfEdge(events[k])
              /\ (~dot /\ Len(args) = 1) => stdout = oldText(old, verbose)

\* without -dot a walk returned nil on a graph where the earlier revision
\* prints a self-edge for an entry otool printed with the marker, and another
\* for the root
C18_Witness ==
    /\ ~dot /\ Returned(1)
    /\ Len(stdout) >= 2
    /\ LET r == Abs(args[1])
           old == oldWalk(1, r)
       IN  /\ \E k \in DOMAIN old : IsEdge(old[k]) /\ old[k].bin = r /\ old[k].to = r
           /\ \E k \in DOMAIN old :
                /\ IsEdge(old[k]) /\ old[k].bin = old[k].to
                /\ \E j \in 2..Len(otool[old[k].bin].out) :
                     /\ HasPrefix(otool[old[k].bin].out[j].path, relPrefix)
                     /\ resolveDepPath(old[k].bin, otool[old[k].bin].out[j].path) = old[k].bin

====
